---- MODULE Spec2Model ----
(***************************************************************************)
(* The weather-station map screen (src/App.js and its near-duplicate       *)
(* src/unnamed/part_000): the station directory load at mount, the         *)
(* asynchronous handleMarkerPress handler, the map background tap, and the *)
(* pure helper degreesToCardinal.                                          *)
(*                                                                         *)
(* JavaScript runs each handler to its next await without interleaving.    *)
(* The variable running names the handleMarkerPress invocation whose       *)
(* continuation is executing; while it is set no other handler may step.   *)
(***************************************************************************)
EXTENDS Integers, Sequences, FiniteSets, TLC

VARIABLES
    variant,      \* which of the two screens is running: "App" or "part_000"
    mounted,      \* the mount effect (useEffect with [] deps) has run
    stationLoads, \* how many station-list requests have been issued
    stationsReq,  \* the station-list request: "none", "pending", "settled"
    stationResp,  \* the response that settled the station-list request
    stations,     \* useState([]) : the station collection
    loading,      \* useState(true) : the global loading flag
    calloutData,  \* useState(null) : the callout view-model
    tasks,        \* the invocations of handleMarkerPress, in tap order
    running,      \* index of the invocation whose continuation is executing, or 0
    dismissed,    \* the background was tapped, and since then no marker was tapped
                  \* and no Loading view-model was published
    lastEvent,    \* the observation response consumed by the last step, if any
    deg,          \* input of degreesToCardinal (pure-function specification)
    cardinal      \* result of degreesToCardinal, or Pending

vars == <<variant, mounted, stationLoads, stationsReq, stationResp, stations,
          loading, calloutData, tasks, running, dismissed, lastEvent, deg, cardinal>>

----------------------------------------------------------------------------
(* Bounds *)

\* number of marker taps in one run
MaxTaps == 2

\* degreesToCardinal is applied to every whole degree in -MaxDeg..MaxDeg
MaxDeg == 400

----------------------------------------------------------------------------
(* JavaScript values: null, undefined, numbers and strings, as records of  *)
(* one shape.                                                              *)

Null == [t |-> "null", n |-> 0, s |-> ""]

Undefined == [t |-> "undefined", n |-> 0, s |-> ""]

Num(n) == [t |-> "number", n |-> n, s |-> ""]

Str(s) == [t |-> "string", n |-> 0, s |-> s]

\* v == null
IsNullish(v) == v.t \in {"null", "undefined"}

\* Math.round(num / den) for den > 0: the nearest integer, halves towards +infinity
MathRound(num, den) == (2 * num + den) \div (2 * den)

\* a % n of JavaScript for n > 0: the remainder takes the sign of the dividend
JsRem(a, n) == IF a >= 0 THEN a % n ELSE -((-a) % n)

\* (tenths / 10).toFixed(1)
ToFixed1(tenths) ==
    LET a == IF tenths < 0 THEN -tenths ELSE tenths
    IN  (IF tenths < 0 THEN "-" ELSE "") \o ToString(a \div 10) \o "." \o ToString(a % 10)

----------------------------------------------------------------------------
(* degreesToCardinal *)

directions == <<"N", "NE", "E", "SE", "S", "SW", "W", "NW">>

\* directions[i] of a JavaScript array: undefined outside 0..7
DirectionAt(i) == IF i \in 0..7 THEN Str(directions[i + 1]) ELSE Undefined

degreesToCardinal(d) ==
    IF IsNullish(d) THEN Null ELSE DirectionAt(JsRem(MathRound(d.n, 45), 8))

----------------------------------------------------------------------------
(* Stations and the station-list endpoint *)

\* a station identifier: a string, kept as its characters, or null
IdOf(chars) == [t |-> "string", chars |-> chars]

NullId == [t |-> "null", chars |-> <<>>]

UpperCase == {"A", "B", "C", "D", "E", "F", "G", "H", "I", "J", "K", "L", "M",
              "N", "O", "P", "Q", "R", "S", "T", "U", "V", "W", "X", "Y", "Z"}

\* a feature of the station list: properties.stationIdentifier, properties.name,
\* geometry.coordinates = [longitude, latitude]
Feature(id, name, lon, lat) ==
    [stationIdentifier |-> id, name |-> name, coordinates |-> <<lon, lat>>]

JFK == Feature(IdOf(<<"K", "J", "F", "K">>), "New York, Kennedy", -74, 41)

DEN == Feature(IdOf(<<"K", "D", "E", "N">>), "Denver", -105, 40)

HNL == Feature(IdOf(<<"P", "H", "N", "L">>), "Honolulu", -158, 21)

K1 == Feature(IdOf(<<"K", "1">>), "Short code", -90, 30)

NOID == Feature(NullId, "No identifier", -80, 35)

\* the pages the endpoint may answer with
StationPages == {<<>>, <<JFK, HNL, DEN>>, <<NOID, K1>>}

\* what axios.get of the station list does: it rejects, or resolves with a body
\* that has a features array or has none
StationResponses ==
    {[ok |-> FALSE, hasFeatures |-> FALSE, features |-> <<>>]}
    \cup {[ok |-> TRUE, hasFeatures |-> FALSE, features |-> <<>>]}
    \cup {[ok |-> TRUE, hasFeatures |-> TRUE, features |-> p] : p \in StationPages}

NoStationResponse == [ok |-> FALSE, hasFeatures |-> FALSE, features |-> <<"none">>]

\* the value held by the stations state: an array, or undefined
ArrayOf(items) == [t |-> "array", items |-> items]

UndefinedStations == [t |-> "undefined", items |-> <<>>]

\* id && /^K[A-Z]{3}$/.test(id)
IsMajorStation(station) ==
    LET id == station.stationIdentifier
    IN  /\ id.t = "string"
        /\ Len(id.chars) = 4
        /\ id.chars[1] = "K"
        /\ \A i \in 2..4 : id.chars[i] \in UpperCase

\* the try block of fetchStations (App.js): the value handed to setStations, or a throw
fetchStations(resp) ==
    IF ~resp.ok THEN [threw |-> TRUE, value |-> UndefinedStations]
    ELSE IF resp.hasFeatures THEN [threw |-> FALSE, value |-> ArrayOf(resp.features)]
    ELSE [threw |-> FALSE, value |-> UndefinedStations]

\* the try block of fetchAndFilterStations (part_000): features.filter throws on undefined
fetchAndFilterStations(resp) ==
    IF ~resp.ok \/ ~resp.hasFeatures THEN [threw |-> TRUE, value |-> UndefinedStations]
    ELSE [threw |-> FALSE, value |-> ArrayOf(SelectSeq(resp.features, IsMajorStation))]

LoadOutcome(v, resp) ==
    IF v = "App" THEN fetchStations(resp) ELSE fetchAndFilterStations(resp)

----------------------------------------------------------------------------
(* The latest-observation endpoint *)

\* a measurement field of properties: absent, null, or an object {value}
NoField == [t |-> "undefined", value |-> Undefined]

NullField == [t |-> "null", value |-> Undefined]

Field(v) == [t |-> "object", value |-> v]

Properties(temperature, windSpeed, windDirection, relativeHumidity) ==
    [temperature |-> temperature, windSpeed |-> windSpeed, windDirection |-> windDirection,
     relativeHumidity |-> relativeHumidity, textDescription |-> Str("Cloudy")]

\* the properties the endpoint may answer with: every combination of present and
\* absent wind speed, wind direction and humidity beside a temperature; each of
\* them present with a null value; a wind direction below zero; and a temperature
\* that is absent, null, or present with a null value
ObservationProperties ==
    {Properties(Field(Num(0)), ws, wd, rh) :
        ws \in {NoField, Field(Num(10))},
        wd \in {NoField, Field(Num(270))},
        rh \in {NoField, Field(Num(55))}}
    \cup {Properties(Field(Num(-40)), Field(Null), Field(Num(270)), Field(Num(55))),
          Properties(Field(Num(-40)), Field(Num(10)), Field(Null), Field(Num(55))),
          Properties(Field(Num(-40)), Field(Num(10)), Field(Num(270)), Field(Null)),
          Properties(Field(Num(-40)), Field(Num(10)), Field(Num(-90)), Field(Num(55))),
          Properties(Field(Num(-40)), NoField, Field(Num(-90)), NoField)}
    \cup {Properties(temperature, Field(Num(10)), Field(Num(270)), Field(Num(55))) :
             temperature \in {NoField, NullField, Field(Null)}}

NoProperties ==
    [temperature |-> NoField, windSpeed |-> NoField, windDirection |-> NoField,
     relativeHumidity |-> NoField, textDescription |-> Undefined]

\* what axios.get of an observation does: it rejects, or resolves with no data,
\* with data that has no properties, or with data.properties
ObservationResponses ==
    {[ok |-> FALSE, hasData |-> FALSE, hasProperties |-> FALSE, properties |-> NoProperties],
     [ok |-> TRUE, hasData |-> FALSE, hasProperties |-> FALSE, properties |-> NoProperties],
     [ok |-> TRUE, hasData |-> TRUE, hasProperties |-> FALSE, properties |-> NoProperties]}
    \cup {[ok |-> TRUE, hasData |-> TRUE, hasProperties |-> TRUE, properties |-> p] :
             p \in ObservationProperties}

\* one response for each path through the handler once axios.get has settled: a
\* rejection, no data, no properties, a temperature that is absent, a temperature
\* with a null value, and a temperature with every or no other field beside it
ResponseSamples ==
    {r \in ObservationResponses :
        \/ ~r.hasProperties
        \/ r.properties.temperature \in {NoField, Field(Null)}
        \/ /\ r.properties.temperature = Field(Num(0))
           /\ \/ /\ r.properties.windSpeed = NoField
                 /\ r.properties.windDirection = NoField
                 /\ r.properties.relativeHumidity = NoField
              \/ /\ r.properties.windSpeed # NoField
                 /\ r.properties.windDirection # NoField
                 /\ r.properties.relativeHumidity # NoField}

NoResponse ==
    [ok |-> FALSE, hasData |-> FALSE, hasProperties |-> FALSE,
     properties |-> [NoProperties EXCEPT !.textDescription = Str("none")]]

----------------------------------------------------------------------------
(* The callout view-model *)

NoPoint == [x |-> 0, y |-> 0]

\* the screen points pointForCoordinate may resolve with (the map can be panned
\* between two taps, so one station is not tied to one point)
ScreenPoints == {[x |-> 120, y |-> 300], [x |-> 200, y |-> 420]}

NoWeather ==
    [t |-> "undefined", temp |-> "", conditions |-> Undefined, windSpeed |-> Undefined,
     windDirection |-> Undefined, humidity |-> Undefined]

\* setCalloutData(null)
NullCallout ==
    [t |-> "null", stationName |-> "", loading |-> FALSE, error |-> Undefined,
     weather |-> NoWeather, position |-> NoPoint]

\* { stationName, loading: true, position }
LoadingCallout(station, point) ==
    [t |-> "object", stationName |-> station.name, loading |-> TRUE, error |-> Undefined,
     weather |-> NoWeather, position |-> point]

\* a faulty variant: the error is merged into the view-model on screen
\* (setCalloutData({ ...calloutData, loading: false, error, ... }))
ErrorCalloutMerged(station, point, message) ==
    [t |-> "object", stationName |-> station.name, loading |-> FALSE, error |-> Str(message),
     weather |-> calloutData.weather, position |-> point]

\* { loading: false, error, position, stationName }
ErrorCallout(station, point, message) ==
    [t |-> "object", stationName |-> station.name, loading |-> FALSE, error |-> Str(message),
     weather |-> NoWeather, position |-> point]

\* props.windSpeed?.value != null ? Math.round(props.windSpeed.value * 2.237) : null
windSpeedMph(props) ==
    IF props.windSpeed.t = "object" /\ ~IsNullish(props.windSpeed.value)
    THEN Num(MathRound(props.windSpeed.value.n * 2237, 1000))
    ELSE Null

\* degreesToCardinal(props.windDirection?.value)
windDirectionCardinal(props) ==
    degreesToCardinal(IF props.windDirection.t = "object"
                      THEN props.windDirection.value ELSE Undefined)

\* props.relativeHumidity?.value != null ? Math.round(props.relativeHumidity.value) : null
humidity(props) ==
    IF props.relativeHumidity.t = "object" /\ ~IsNullish(props.relativeHumidity.value)
    THEN Num(MathRound(props.relativeHumidity.value.n, 1))
    ELSE Null

\* { stationName, weather: {temp, conditions, windSpeed, windDirection, humidity},
\*   loading: false, position }
ReadyCallout(station, point, props) ==
    [t |-> "object", stationName |-> station.name, loading |-> FALSE, error |-> Undefined,
     weather |-> [t |-> "object",
                  temp |-> ToFixed1(props.temperature.value.n * 18 + 320),
                  conditions |-> props.textDescription,
                  windSpeed |-> windSpeedMph(props),
                  windDirection |-> windDirectionCardinal(props),
                  humidity |-> humidity(props)],
     position |-> point]

\* the body of the try block once axios.get has settled, and the catch block:
\* reading .value of a temperature that is absent or null throws a TypeError
ObservationCallout(station, point, resp) ==
    IF ~resp.ok THEN ErrorCallout(station, point, "Fetch failed.")
    ELSE IF ~resp.hasData \/ ~resp.hasProperties
    THEN ErrorCallout(station, point, "No recent observation.")
    ELSE IF resp.properties.temperature.t # "object"
    THEN ErrorCallout(station, point, "Fetch failed.")
    ELSE IF ~IsNullish(resp.properties.temperature.value)
    THEN ReadyCallout(station, point, resp.properties)
    ELSE ErrorCallout(station, point, "No recent observation.")

----------------------------------------------------------------------------
(* State *)

Pending == Str("pending")

\* lastEvent: the observation response a handler has just consumed, if the last
\* step was that
Settled(t, resp) == [kind |-> "settled", task |-> t, resp |-> resp]

NoEvent == [kind |-> "other", task |-> 0, resp |-> NoResponse]

\* the state of the component after its first render: the three useState defaults
Init ==
    /\ variant \in {"App", "part_000"}
    /\ mounted = FALSE
    /\ stationLoads = 0
    /\ stationsReq = "none"
    /\ stationResp = NoStationResponse
    /\ stations = ArrayOf(<<>>)
    /\ loading = TRUE
    /\ calloutData = NullCallout
    /\ tasks = <<>>
    /\ running = 0
    /\ dismissed = FALSE
    /\ lastEvent = NoEvent
    /\ deg = Null
    /\ cardinal = Pending

\* the component returns the loading view while loading is set, and its render
\* throws in stations.map when stations is not an array: the map, its markers and
\* its background are on screen only otherwise
MapOnScreen == ~loading /\ stations.t = "array"

Tasks == 1..Len(tasks)

----------------------------------------------------------------------------
(* The station directory load *)

\* useEffect(() => { fetchStations() }, []): runs once, after the first render,
\* up to the await of axios.get
Mount ==
    /\ ~mounted
    /\ mounted' = TRUE
    /\ stationLoads' = stationLoads + 1
    /\ stationsReq' = "pending"
    /\ lastEvent' = NoEvent
    /\ UNCHANGED <<variant, stationResp, stations, loading, calloutData, tasks, running,
                   dismissed, deg, cardinal>>

\* a faulty variant: setLoading(false) at the end of the try block instead of in finally
StationsSettledNoFinally(resp) ==
    /\ stationsReq = "pending"
    /\ running = 0
    /\ LET out == LoadOutcome(variant, resp)
       IN  /\ stations' = IF out.threw THEN stations ELSE out.value
           /\ loading' = IF out.threw THEN loading ELSE FALSE
    /\ stationsReq' = "settled"
    /\ stationResp' = resp
    /\ lastEvent' = NoEvent
    /\ UNCHANGED <<variant, mounted, stationLoads, calloutData, tasks, running,
                   dismissed, deg, cardinal>>

\* axios.get of the station list settles: the rest of the try block, the catch
\* block on a throw, then the finally block
StationsSettled(resp) ==
    /\ stationsReq = "pending"
    /\ running = 0
    /\ LET out == LoadOutcome(variant, resp)
       IN  stations' = IF out.threw THEN stations ELSE out.value
    /\ loading' = FALSE
    /\ stationsReq' = "settled"
    /\ stationResp' = resp
    /\ lastEvent' = NoEvent
    /\ UNCHANGED <<variant, mounted, stationLoads, calloutData, tasks, running,
                   dismissed, deg, cardinal>>

----------------------------------------------------------------------------
(* handleMarkerPress *)

\* a marker's onPress: handleMarkerPress(station) runs up to the await of
\* pointForCoordinate
TapMarker(i) ==
    /\ MapOnScreen
    /\ running = 0
    /\ Len(tasks) < MaxTaps
    /\ i \in 1..Len(stations.items)
    /\ tasks' = Append(tasks, [station |-> stations.items[i], pc |-> "projecting",
                               point |-> NoPoint, published |-> NullCallout])
    /\ dismissed' = FALSE
    /\ lastEvent' = NoEvent
    /\ UNCHANGED <<variant, mounted, stationLoads, stationsReq, stationResp, stations,
                   loading, calloutData, running, deg, cardinal>>

\* a faulty variant: the observation fetch is issued as soon as the point is known,
\* before the Loading view-model is set
ProjectionResolvedFetchFirst(t, point) ==
    /\ running = 0
    /\ t \in Tasks
    /\ tasks[t].pc = "projecting"
    /\ tasks' = [tasks EXCEPT ![t].point = point, ![t].pc = "issue"]
    /\ running' = t
    /\ lastEvent' = NoEvent
    /\ UNCHANGED <<variant, mounted, stationLoads, stationsReq, stationResp, stations,
                   loading, calloutData, dismissed, deg, cardinal>>

\* pointForCoordinate resolves: const point = await ...
ProjectionResolved(t, point) ==
    /\ running = 0
    /\ t \in Tasks
    /\ tasks[t].pc = "projecting"
    /\ tasks' = [tasks EXCEPT ![t].point = point, ![t].pc = "publish"]
    /\ running' = t
    /\ lastEvent' = NoEvent
    /\ UNCHANGED <<variant, mounted, stationLoads, stationsReq, stationResp, stations,
                   loading, calloutData, dismissed, deg, cardinal>>

\* pointForCoordinate rejects: the await throws outside the try block and the
\* handler ends without writing anything
ProjectionRejected(t) ==
    /\ running = 0
    /\ t \in Tasks
    /\ tasks[t].pc = "projecting"
    /\ tasks' = [tasks EXCEPT ![t].pc = "rejected"]
    /\ lastEvent' = NoEvent
    /\ UNCHANGED <<variant, mounted, stationLoads, stationsReq, stationResp, stations,
                   loading, calloutData, running, dismissed, deg, cardinal>>

\* setCalloutData({ stationName, loading: true, position: point })
PublishLoading(t) ==
    /\ running = t
    /\ t \in Tasks
    /\ tasks[t].pc = "publish"
    /\ calloutData' = LoadingCallout(tasks[t].station, tasks[t].point)
    /\ tasks' = [tasks EXCEPT ![t].pc = "issue", ![t].published = calloutData']
    /\ dismissed' = FALSE
    /\ lastEvent' = NoEvent
    /\ UNCHANGED <<variant, mounted, stationLoads, stationsReq, stationResp, stations,
                   loading, running, deg, cardinal>>

\* try { const response = await axios.get(...) : the request is issued and the
\* handler is suspended
IssueFetch(t) ==
    /\ running = t
    /\ t \in Tasks
    /\ tasks[t].pc = "issue"
    /\ tasks' = [tasks EXCEPT ![t].pc = "fetching"]
    /\ running' = 0
    /\ lastEvent' = NoEvent
    /\ UNCHANGED <<variant, mounted, stationLoads, stationsReq, stationResp, stations,
                   loading, calloutData, dismissed, deg, cardinal>>

\* a faulty variant: the anchor is taken from the view-model on screen
SettledCalloutAtShownAnchor(t, resp) ==
    ObservationCallout(tasks[t].station,
                       IF calloutData.t = "object" THEN calloutData.position
                       ELSE tasks[t].point,
                       resp)

\* the view-model handleMarkerPress writes when its axios.get has settled
SettledCallout(t, resp) == ObservationCallout(tasks[t].station, tasks[t].point, resp)

\* a faulty variant: a result is dropped unless its station is the one on screen
ObservationSettledIfCurrent(t, resp) ==
    /\ running = 0
    /\ t \in Tasks
    /\ tasks[t].pc = "fetching"
    /\ calloutData' = IF calloutData.stationName = tasks[t].station.name
                      THEN SettledCallout(t, resp) ELSE calloutData
    /\ tasks' = [tasks EXCEPT ![t].pc = "done"]
    /\ lastEvent' = Settled(t, resp)
    /\ UNCHANGED <<variant, mounted, stationLoads, stationsReq, stationResp, stations,
                   loading, running, dismissed, deg, cardinal>>

\* axios.get of the observation settles: the rest of the try block, or the catch
\* block; whatever the callout holds by then is overwritten
ObservationSettled(t, resp) ==
    /\ running = 0
    /\ t \in Tasks
    /\ tasks[t].pc = "fetching"
    /\ calloutData' = SettledCallout(t, resp)
    /\ tasks' = [tasks EXCEPT ![t].pc = "done"]
    /\ lastEvent' = Settled(t, resp)
    /\ UNCHANGED <<variant, mounted, stationLoads, stationsReq, stationResp, stations,
                   loading, running, dismissed, deg, cardinal>>

\* the map's onPress: setCalloutData(null)
BackgroundTap ==
    /\ MapOnScreen
    /\ running = 0
    /\ calloutData' = NullCallout
    /\ dismissed' = TRUE
    /\ lastEvent' = NoEvent
    /\ UNCHANGED <<variant, mounted, stationLoads, stationsReq, stationResp, stations,
                   loading, tasks, running, deg, cardinal>>

Next ==
    \/ Mount
    \/ \E resp \in StationResponses : StationsSettled(resp)
    \/ \E i \in 1..3 : TapMarker(i)
    \/ \E t \in 1..MaxTaps, point \in ScreenPoints : ProjectionResolved(t, point)
    \/ \E t \in 1..MaxTaps : ProjectionRejected(t)
    \/ \E t \in 1..MaxTaps : PublishLoading(t)
    \/ \E t \in 1..MaxTaps : IssueFetch(t)
    \/ \E t \in 1..MaxTaps, resp \in ResponseSamples : ObservationSettled(t, resp)
    \/ BackgroundTap

Spec == Init /\ [][Next]_vars

\* one marker tap, answered by every response of ObservationResponses
NextObservation ==
    \/ Mount
    \/ \E resp \in StationResponses : StationsSettled(resp)
    \/ \E i \in 1..3 : tasks = <<>> /\ TapMarker(i)
    \/ \E point \in ScreenPoints : ProjectionResolved(1, point)
    \/ ProjectionRejected(1)
    \/ PublishLoading(1)
    \/ IssueFetch(1)
    \/ \E resp \in ObservationResponses : ObservationSettled(1, resp)
    \/ BackgroundTap

SpecObservation == Init /\ [][NextObservation]_vars

----------------------------------------------------------------------------
(* degreesToCardinal on its own: every input, then the call *)

DegInputs == {Null, Undefined} \cup {Num(n) : n \in (-MaxDeg)..MaxDeg}

InitCardinal ==
    /\ variant = "App"
    /\ mounted = FALSE
    /\ stationLoads = 0
    /\ stationsReq = "none"
    /\ stationResp = NoStationResponse
    /\ stations = ArrayOf(<<>>)
    /\ loading = TRUE
    /\ calloutData = NullCallout
    /\ tasks = <<>>
    /\ running = 0
    /\ dismissed = FALSE
    /\ lastEvent = NoEvent
    /\ deg \in DegInputs
    /\ cardinal = Pending

Convert ==
    /\ cardinal = Pending
    /\ cardinal' = degreesToCardinal(deg)
    /\ UNCHANGED <<variant, mounted, stationLoads, stationsReq, stationResp, stations,
                   loading, calloutData, tasks, running, dismissed, lastEvent, deg>>

NextCardinal == Convert

SpecCardinal == InitCardinal /\ [][NextCardinal]_vars

----------------------------------------------------------------------------
(* Properties *)

StationName(t) == tasks[t].station.name

\* C1: when station A is tapped before station B and A's observation settles
\* after B's has, the view-model right after A's settles carries A's station
\* name: A's result overwrites B's, nothing guards against the stale result.
C1_StaleResultOverwrites ==
    \A a \in Tasks, b \in Tasks :
        (a < b /\ tasks[b].pc = "done" /\ lastEvent.kind = "settled" /\ lastEvent.task = a)
        => (calloutData.t = "object" /\ calloutData.stationName = StationName(a))

C1_Witness ==
    \E a \in Tasks, b \in Tasks :
        /\ a < b
        /\ StationName(a) # StationName(b)
        /\ tasks[b].pc = "done"
        /\ lastEvent.kind = "settled"
        /\ lastEvent.task = a
        /\ calloutData.stationName = StationName(a)

\* C2: a background tap sets the view-model to Idle, and the result of a fetch
\* that was in flight at the tap is discarded: when it settles before the next
\* marker tap the view-model is still Idle. (A fetch that settles while dismissed
\* is set was issued before the tap: issuing it publishes Loading first.)
C2_DismissalDiscardsResult ==
    (dismissed /\ lastEvent.kind = "settled") => calloutData = NullCallout

\* C3: for every marker tap the projection completes first, then the Loading
\* view-model with that anchor and the station's name is published, then the
\* observation fetch is issued; no fetch is issued before that publication.
C3_AnchorPublishedBeforeFetch ==
    \A t \in Tasks :
        /\ tasks[t].pc \in {"projecting", "rejected"}
              => (tasks[t].point = NoPoint /\ tasks[t].published = NullCallout)
        /\ tasks[t].pc = "publish"
              => (tasks[t].point \in ScreenPoints /\ tasks[t].published = NullCallout)
        /\ tasks[t].pc \in {"issue", "fetching", "done"}
              => /\ tasks[t].point \in ScreenPoints
                 /\ tasks[t].published = LoadingCallout(tasks[t].station, tasks[t].point)

C3_Witness ==
    \E t \in Tasks :
        /\ tasks[t].pc = "fetching"
        /\ calloutData = LoadingCallout(tasks[t].station, tasks[t].point)

LacksTemperature(resp) ==
    /\ resp.ok
    /\ resp.hasData
    /\ resp.hasProperties
    /\ \/ resp.properties.temperature.t # "object"
       \/ IsNullish(resp.properties.temperature.value)

\* C4: a response whose payload is present but holds no non-null temperature
\* (the value is null, or the temperature field is missing) is published as
\* "No recent observation.", never as Ready and never as "Fetch failed.".
C4_NoTemperatureIsNotAvailable ==
    (lastEvent.kind = "settled" /\ LacksTemperature(lastEvent.resp))
    => /\ calloutData.error = Str("No recent observation.")
       /\ calloutData.weather.t = "undefined"

\* C5: whenever the station-list fetch has settled the screen is Ready and the
\* station collection is a sequence; it is empty when the fetch failed or the
\* payload had no features collection.
C5_StationsAlwaysIterable ==
    stationsReq = "settled"
    => /\ ~loading
       /\ stations.t = "array"
       /\ (~stationResp.ok \/ ~stationResp.hasFeatures) => stations.items = <<>>

\* C6: the station load is issued exactly once, at mount; the loading flag is set
\* until that request settles and clear from then on, it never goes back to set,
\* and no handleMarkerPress invocation exists while it is set.
C6_LoadOnceThenReady ==
    /\ [](/\ stationLoads = (IF mounted THEN 1 ELSE 0)
          /\ loading <=> (stationsReq # "settled")
          /\ loading => tasks = <<>>)
    /\ [][/\ ~loading => ~loading'
          /\ stationLoads' # stationLoads => (~mounted /\ tasks = <<>>)]_vars

C6_Witness ==
    /\ stationsReq = "settled"
    /\ ~loading
    /\ stationLoads = 1
    /\ tasks # <<>>

\* C7: degreesToCardinal gives null for null or undefined and one of the eight
\* labels for every number, negative numbers and 360 and above included;
\* 0 gives N, 45 gives NE, 360 gives N.
C7_CardinalIsTotal ==
    cardinal # Pending
    => /\ IsNullish(deg) => cardinal = Null
       /\ ~IsNullish(deg) => \E i \in 1..8 : cardinal = Str(directions[i])
       /\ deg \in {Num(0), Num(360)} => cardinal = Str("N")
       /\ deg = Num(45) => cardinal = Str("NE")

\* C8: the anchor of a tap is computed once and every view-model the tap
\* publishes carries it with the tap's station name: a view-model on screen
\* always holds the (stationName, position) of one tap.
C8_AnchorOfOneTap ==
    /\ [](/\ calloutData.t = "object"
             => \E t \in Tasks :
                   /\ tasks[t].pc \in {"issue", "fetching", "done"}
                   /\ calloutData.stationName = StationName(t)
                   /\ calloutData.position = tasks[t].point
          /\ lastEvent.kind = "settled"
             => /\ calloutData.stationName = StationName(lastEvent.task)
                /\ calloutData.position = tasks[lastEvent.task].published.position)
    /\ [][\A t \in Tasks :
             tasks[t].point # NoPoint => tasks'[t].point = tasks[t].point]_vars

C8_Witness ==
    \E a \in Tasks, b \in Tasks :
        /\ StationName(a) = StationName(b)
        /\ tasks[a].point # tasks[b].point
        /\ tasks[a].pc = "done"
        /\ tasks[b].pc \in {"fetching", "done"}
        /\ lastEvent.kind = "settled"
        /\ lastEvent.task = a
        /\ calloutData.position = tasks[a].point

IsLoading(c) == c.loading /\ c.error = Undefined /\ c.weather.t = "undefined"

IsErrored(c) ==
    ~c.loading /\ c.error.t = "string" /\ c.error.s # "" /\ c.weather.t = "undefined"

IsReady(c) == ~c.loading /\ c.weather.t = "object" /\ c.error = Undefined

\* C9: the one view-model is null or in exactly one status: Loading (loading, no
\* error, no weather), Errored (not loading, a message, no weather) or Ready (not
\* loading, weather, no error); no write leaves fields of the previous one.
C9_OneStatus ==
    \/ calloutData = NullCallout
    \/ /\ calloutData.t = "object"
       /\ IsLoading(calloutData) \/ IsErrored(calloutData) \/ IsReady(calloutData)

C9_Witness ==
    /\ IsErrored(calloutData)
    /\ \E a \in Tasks, b \in Tasks :
          /\ a # b
          /\ tasks[a].pc = "done"
          /\ tasks[b].pc = "done"
          /\ lastEvent.task = b

Valued(field) == field.t = "object" /\ ~IsNullish(field.value)

\* C10: on the Ready path each of windSpeed, windDirection and humidity is
\* non-null exactly when its own source field is present with a non-null value,
\* and a response with a temperature is Ready whatever the other fields are.
C10_DerivedFieldsFollowSources ==
    (/\ lastEvent.kind = "settled"
     /\ lastEvent.resp.hasProperties
     /\ Valued(lastEvent.resp.properties.temperature))
    => LET p == lastEvent.resp.properties
           w == calloutData.weather
       IN  /\ IsReady(calloutData)
           /\ ~IsNullish(w.windSpeed) <=> Valued(p.windSpeed)
           /\ ~IsNullish(w.windDirection) <=> Valued(p.windDirection)
           /\ ~IsNullish(w.humidity) <=> Valued(p.relativeHumidity)

====
